---- MODULE Spec2Model ----
(***************************************************************************)
(* Healthcare Cost Estimator (src/app.py): the "Estimate Cost" handler.    *)
(*                                                                         *)
(* Numbers are exact rationals with denominator PercentBase: the integer n *)
(* stands for n / 100.  A whole-dollar amount d is Dollars(d) = 100 * d,   *)
(* a rate of p percent (p / 100 in the source) is the integer p, and the   *)
(* product of two numbers is Times.  Fees, deductibles and the             *)
(* out-of-pocket maximum are whole dollars and the rates whole percents,   *)
(* so every product the handler forms is exact (ExactProducts).            *)
(*                                                                         *)
(* The four fee categories are kept in the order of the source:            *)
(* 1 provider, 2 facility, 3 imaging, 4 anesthesia.  The source variables  *)
(* provider_deductible .. anesthesia_deductible are deductible[1..4], and  *)
(* likewise fee, remaining, covered and out_of_pocket.  A sequence is as   *)
(* long as the number of its variables assigned so far.                    *)
(***************************************************************************)
EXTENDS Integers, Sequences, FiniteSets, TLC

PercentBase == 100

MaxFee == 2
MaxDeductible == 3
MaxOutOfPocket == 2
MaxTotalCost == 1

Dollars(n) == n * PercentBase

Times(a, b) == (a * b) \div PercentBase

Min(a, b) == IF a < b THEN a ELSE b

Max(a, b) == IF a > b THEN a ELSE b

Category == <<"Provider Fee", "Facility Fee", "Imaging Fee", "Anesthesia Fee">>

NumCategories == Len(Category)

\* The selected plans: the reference plan of the end-to-end example and
\* every small plan.  Rates are whole percents.
Percents == {0, 10, 60}

ReferencePlan ==
    [ RemainingDeductible |-> 200, CoPayPct |-> 10,
      CoInsurancePct |-> 10, OutOfPocketMax |-> 500 ]

Plans ==
    [ RemainingDeductible : 0..MaxDeductible, CoPayPct : Percents,
      CoInsurancePct : Percents, OutOfPocketMax : 0..MaxOutOfPocket ]
    \cup {ReferencePlan}

\* The rows of the cost table: fees in whole dollars and the table's own
\* precomputed total.
ReferenceRow == [ fees |-> <<500, 300, 200, 100>>, total |-> 1100 ]

Rows ==
    [ fees : [1..NumCategories -> 0..MaxFee], total : 0..MaxTotalCost ]
    \cup {ReferenceRow}

VARIABLES
    pc,                    \* position in the script
    filtered_df,           \* <<>> or <<row>>
    deductible_remaining, co_pay, co_insurance, out_of_pocket_max,
    fee, total_cost,
    remaining_deductible,  \* the threaded deductible pool
    deductible, remaining, covered, out_of_pocket,
    total_applied_to_deductible, total_covered_by_insurance,
    total_out_of_pocket,
    breakdown_df

plan == <<deductible_remaining, co_pay, co_insurance, out_of_pocket_max>>

perCategory == <<deductible, remaining, covered, out_of_pocket>>

totals == <<total_applied_to_deductible, total_covered_by_insurance,
            total_out_of_pocket>>

vars == <<pc, filtered_df, plan, fee, total_cost, remaining_deductible,
          perCategory, totals, breakdown_df>>

\* The script down to the button: the plan details of the selected plan and
\* the rows matching procedure and ZIP code.  Nothing of the handler is
\* assigned yet (0 and <<>> stand for unbound names, never read).
Init ==
    /\ pc = "button"
    /\ \E p \in Plans :
          /\ deductible_remaining = Dollars(p.RemainingDeductible)
          /\ co_pay = p.CoPayPct
          /\ co_insurance = p.CoInsurancePct
          /\ out_of_pocket_max = Dollars(p.OutOfPocketMax)
    /\ filtered_df \in {<<>>} \cup {<<r>> : r \in Rows}
    /\ fee = <<>>
    /\ total_cost = 0
    /\ remaining_deductible = 0
    /\ deductible = <<>>
    /\ remaining = <<>>
    /\ covered = <<>>
    /\ out_of_pocket = <<>>
    /\ total_applied_to_deductible = 0
    /\ total_covered_by_insurance = 0
    /\ total_out_of_pocket = 0
    /\ breakdown_df = <<>>

\* if not filtered_df.empty: false, the handler does nothing.
NoMatchingRow ==
    /\ pc = "button"
    /\ filtered_df = <<>>
    /\ pc' = "no_result"
    /\ UNCHANGED <<filtered_df, plan, fee, total_cost, remaining_deductible,
                   perCategory, totals, breakdown_df>>

\* Read the fees of the first matching row and initialize the pool.
ReadFees ==
    /\ pc = "button"
    /\ filtered_df # <<>>
    /\ fee' = [i \in 1..NumCategories |-> Dollars(filtered_df[1].fees[i])]
    /\ total_cost' = Dollars(filtered_df[1].total)
    /\ remaining_deductible' = deductible_remaining
    /\ pc' = "deductible"
    /\ UNCHANGED <<filtered_df, plan, perCategory, totals, breakdown_df>>

\* Mutant: the partial branch forgets to take the applied amount off the cost.
apply_deductible_fullResidual(cost, pool) ==
    IF pool > cost
    THEN <<cost, 0, pool - cost>>
    ELSE <<pool, cost, 0>>

\* Mutant: the partial branch does not exhaust the pool.
apply_deductible_keepPool(cost, pool) ==
    IF pool > cost
    THEN <<cost, 0, pool - cost>>
    ELSE <<pool, cost - pool, pool>>

apply_deductible(cost, pool) ==
    IF pool > cost
    THEN <<cost, 0, pool - cost>>
    ELSE <<pool, cost - pool, 0>>

\* Mutant: every call is given the plan's remaining deductible instead of
\* the pool the previous call returned.
ApplyDeductible_unthreaded ==
    /\ pc = "deductible"
    /\ LET i == Len(deductible) + 1
           r == apply_deductible(fee[i], deductible_remaining)
       IN  /\ deductible' = Append(deductible, r[1])
           /\ remaining' = Append(remaining, r[2])
           /\ remaining_deductible' = r[3]
           /\ pc' = IF i = NumCategories THEN "coverage" ELSE "deductible"
    /\ UNCHANGED <<filtered_df, plan, fee, total_cost, covered, out_of_pocket,
                   totals, breakdown_df>>

\* One of the four calls of Step 1, for the next category in order, passing
\* the pool the previous call returned.
ApplyDeductible ==
    /\ pc = "deductible"
    /\ LET i == Len(deductible) + 1
           r == apply_deductible(fee[i], remaining_deductible)
       IN  /\ deductible' = Append(deductible, r[1])
           /\ remaining' = Append(remaining, r[2])
           /\ remaining_deductible' = r[3]
           /\ pc' = IF i = NumCategories THEN "coverage" ELSE "deductible"
    /\ UNCHANGED <<filtered_df, plan, fee, total_cost, covered, out_of_pocket,
                   totals, breakdown_df>>

\* Mutant: the co-insurance rate is left out of the covered share.
calculate_insurance_coverage_coPayOnly(remaining_cost) ==
    LET cov == Times(remaining_cost, co_pay)
    IN  <<cov, remaining_cost - cov>>

\* Mutant: the sum of the two rates is clamped to 1.
calculate_insurance_coverage_clamped(remaining_cost) ==
    LET cov == Times(remaining_cost, Min(co_pay + co_insurance, PercentBase))
    IN  <<cov, remaining_cost - cov>>

calculate_insurance_coverage(remaining_cost) ==
    LET cov == Times(remaining_cost, co_pay + co_insurance)
    IN  <<cov, remaining_cost - cov>>

\* Mutant: coverage is computed on the whole fee, not on the residual.
ApplyCoverage_onFee ==
    /\ pc = "coverage"
    /\ LET i == Len(covered) + 1
           r == calculate_insurance_coverage(fee[i])
       IN  /\ covered' = Append(covered, r[1])
           /\ out_of_pocket' = Append(out_of_pocket, r[2])
           /\ pc' = IF i = NumCategories THEN "totals" ELSE "coverage"
    /\ UNCHANGED <<filtered_df, plan, fee, total_cost, remaining_deductible,
                   deductible, remaining, totals, breakdown_df>>

\* One of the four calls of Step 2, for the next category in order.
ApplyCoverage ==
    /\ pc = "coverage"
    /\ LET i == Len(covered) + 1
           r == calculate_insurance_coverage(remaining[i])
       IN  /\ covered' = Append(covered, r[1])
           /\ out_of_pocket' = Append(out_of_pocket, r[2])
           /\ pc' = IF i = NumCategories THEN "totals" ELSE "coverage"
    /\ UNCHANGED <<filtered_df, plan, fee, total_cost, remaining_deductible,
                   deductible, remaining, totals, breakdown_df>>

\* Mutant: the anesthesia share is left out of the covered total.
CalculateTotals_missingAnesthesia ==
    /\ pc = "totals"
    /\ total_applied_to_deductible' =
           deductible[1] + deductible[2] + deductible[3] + deductible[4]
    /\ total_covered_by_insurance' = covered[1] + covered[2] + covered[3]
    /\ total_out_of_pocket' =
           out_of_pocket[1] + out_of_pocket[2] + out_of_pocket[3]
           + out_of_pocket[4]
    /\ pc' = "cap"
    /\ UNCHANGED <<filtered_df, plan, fee, total_cost, remaining_deductible,
                   perCategory, breakdown_df>>

\* Step 3, the three plain sums.
CalculateTotals ==
    /\ pc = "totals"
    /\ total_applied_to_deductible' =
           deductible[1] + deductible[2] + deductible[3] + deductible[4]
    /\ total_covered_by_insurance' =
           covered[1] + covered[2] + covered[3] + covered[4]
    /\ total_out_of_pocket' =
           out_of_pocket[1] + out_of_pocket[2] + out_of_pocket[3]
           + out_of_pocket[4]
    /\ pc' = "cap"
    /\ UNCHANGED <<filtered_df, plan, fee, total_cost, remaining_deductible,
                   perCategory, breakdown_df>>

\* Mutant: the cap is not applied.
CapOutOfPocket_uncapped ==
    /\ pc = "cap"
    /\ pc' = "display"
    /\ UNCHANGED <<filtered_df, plan, fee, total_cost, remaining_deductible,
                   perCategory, totals, breakdown_df>>

\* Mutant: the amount cut off by the cap is moved to the insurer's total.
CapOutOfPocket_reallocated ==
    /\ pc = "cap"
    /\ total_out_of_pocket' = Min(total_out_of_pocket, out_of_pocket_max)
    /\ total_covered_by_insurance' =
           total_covered_by_insurance
           + (total_out_of_pocket - Min(total_out_of_pocket, out_of_pocket_max))
    /\ pc' = "display"
    /\ UNCHANGED <<filtered_df, plan, fee, total_cost, remaining_deductible,
                   perCategory, total_applied_to_deductible, breakdown_df>>

\* total_out_of_pocket = min(total_out_of_pocket, out_of_pocket_max)
CapOutOfPocket ==
    /\ pc = "cap"
    /\ total_out_of_pocket' = Min(total_out_of_pocket, out_of_pocket_max)
    /\ pc' = "display"
    /\ UNCHANGED <<filtered_df, plan, fee, total_cost, remaining_deductible,
                   perCategory, total_applied_to_deductible,
                   total_covered_by_insurance, breakdown_df>>

\* The breakdown table: one row per category and the "Total" row.
DisplayBreakdown ==
    /\ pc = "display"
    /\ breakdown_df' =
         [ Category |-> Append(Category, "Total"),
           Cost |-> Append(fee, total_cost),
           AppliedToDeductible |->
               Append(deductible, total_applied_to_deductible),
           CoveredByInsurance |->
               Append(covered, total_covered_by_insurance),
           OutOfPocket |-> Append(out_of_pocket, total_out_of_pocket) ]
    /\ pc' = "done"
    /\ UNCHANGED <<filtered_df, plan, fee, total_cost, remaining_deductible,
                   perCategory, totals>>

Next ==
    \/ NoMatchingRow
    \/ ReadFees
    \/ ApplyDeductible
    \/ ApplyCoverage
    \/ CalculateTotals
    \/ CapOutOfPocket
    \/ DisplayBreakdown

Spec == Init /\ [][Next]_vars

----------------------------------------------------------------------------
TypeOK ==
    /\ pc \in {"button", "no_result", "deductible", "coverage", "totals",
               "cap", "display", "done"}
    /\ Len(deductible) = Len(remaining)
    /\ Len(covered) = Len(out_of_pocket)
    /\ Len(covered) <= Len(deductible)
    /\ Len(deductible) <= NumCategories
    /\ Len(covered) > 0 => Len(deductible) = NumCategories

\* Every product formed by calculate_insurance_coverage is exact.
ExactProducts ==
    \A i \in 1..Len(remaining) :
        (remaining[i] * (co_pay + co_insurance)) % PercentBase = 0
----------------------------------------------------------------------------
RECURSIVE SumTo(_, _)
\* s[1] + ... + s[n]
SumTo(s, n) == IF n = 0 THEN 0 ELSE SumTo(s, n - 1) + s[n]

SumSeq(s) == SumTo(s, Len(s))

Rate == co_pay + co_insurance

\* The handler ran to the end on a matching row.
Estimated == pc = "done"

\* The totals are assigned and capped.
Capped == pc \in {"display", "done"}

ReferenceRun ==
    /\ filtered_df = <<ReferenceRow>>
    /\ deductible_remaining = Dollars(ReferencePlan.RemainingDeductible)
    /\ co_pay = ReferencePlan.CoPayPct
    /\ co_insurance = ReferencePlan.CoInsurancePct
    /\ out_of_pocket_max = Dollars(ReferencePlan.OutOfPocketMax)

----------------------------------------------------------------------------
\* C1: every call apply_deductible(cost, pool) with cost >= 0 and pool >= 0
\* returns applied = min(cost, pool), residual = cost - applied and the new
\* pool max(0, pool - cost); so applied + residual = cost, and when
\* pool = cost the result is applied = pool, residual = 0, new pool = 0.
C1_ApplyDeductibleContract ==
    [][ (pc = "deductible" /\ Len(deductible') = Len(deductible) + 1) =>
          LET i == Len(deductible) + 1
              cost == fee[i]
              pool == remaining_deductible
              applied == deductible'[i]
              residual == remaining'[i]
          IN  /\ cost >= 0 /\ pool >= 0
              /\ applied = Min(cost, pool)
              /\ residual = cost - applied
              /\ remaining_deductible' = Max(0, pool - cost)
              /\ applied + residual = cost
              /\ pool = cost =>
                    /\ applied = pool
                    /\ residual = 0
                    /\ remaining_deductible' = 0 ]_vars

\* The boundary case happened on the provider fee: a positive fee equal to
\* the pool.
C1_Witness ==
    /\ Len(deductible) = 1
    /\ fee[1] > 0
    /\ fee[1] = deductible_remaining
    /\ deductible[1] = fee[1]
    /\ remaining[1] = 0
    /\ remaining_deductible = 0

\* C2: after an estimate run the three displayed figures of each category
\* add up to the fee: applied + covered + out-of-pocket = amount, and
\* covered + out-of-pocket = amount - applied.
C2_PerCategoryBalance ==
    Estimated =>
        \A i \in 1..NumCategories :
            /\ breakdown_df.AppliedToDeductible[i]
                 + breakdown_df.CoveredByInsurance[i]
                 + breakdown_df.OutOfPocket[i] = breakdown_df.Cost[i]
            /\ breakdown_df.CoveredByInsurance[i] + breakdown_df.OutOfPocket[i]
                 = breakdown_df.Cost[i] - breakdown_df.AppliedToDeductible[i]

\* A displayed category with all three figures non-zero.
C2_Witness ==
    /\ Estimated
    /\ \E i \in 1..NumCategories :
          /\ breakdown_df.AppliedToDeductible[i] > 0
          /\ breakdown_df.CoveredByInsurance[i] > 0
          /\ breakdown_df.OutOfPocket[i] > 0

\* C3: with both rates in [0,1] and their sum at most 1, every call
\* calculate_insurance_coverage(residual) with residual >= 0 returns
\* covered = residual * (coPay + coInsurance) and patient = residual -
\* covered; the two add up to the residual and both are >= 0.
C3_CoverageContract ==
    (co_pay \in 0..PercentBase /\ co_insurance \in 0..PercentBase
        /\ Rate <= PercentBase) =>
        \A i \in 1..Len(covered) :
            remaining[i] >= 0 =>
                /\ covered[i] * PercentBase = remaining[i] * Rate
                /\ out_of_pocket[i] = remaining[i] - covered[i]
                /\ covered[i] + out_of_pocket[i] = remaining[i]
                /\ covered[i] >= 0
                /\ out_of_pocket[i] >= 0

\* Both rates positive, sum below 1, a positive residual split in two
\* positive parts.
C3_Witness ==
    /\ co_pay > 0 /\ co_insurance > 0 /\ Rate < PercentBase
    /\ \E i \in 1..Len(covered) :
          /\ remaining[i] > 0
          /\ covered[i] > 0
          /\ out_of_pocket[i] > 0

\* C4: the reported total out-of-pocket is min(sum of the four per-category
\* out-of-pocket amounts, outOfPocketMax); it never exceeds outOfPocketMax
\* and equals it whenever the uncapped sum is greater.
C4_TotalOutOfPocketCapped ==
    /\ Capped =>
          /\ total_out_of_pocket = Min(SumSeq(out_of_pocket), out_of_pocket_max)
          /\ total_out_of_pocket <= out_of_pocket_max
          /\ SumSeq(out_of_pocket) > out_of_pocket_max =>
                total_out_of_pocket = out_of_pocket_max
    /\ Estimated =>
          breakdown_df.OutOfPocket[NumCategories + 1]
              = Min(SumSeq(out_of_pocket), out_of_pocket_max)

\* Four positive fees past an exhausted deductible, rates 0.1 and 0.1, and a
\* maximum below the uncapped sum.
C4_Witness ==
    /\ Estimated
    /\ deductible_remaining = 0
    /\ co_pay = 10 /\ co_insurance = 10
    /\ \A i \in 1..NumCategories : fee[i] > 0
    /\ 0 < out_of_pocket_max
    /\ out_of_pocket_max < SumSeq(out_of_pocket)
    /\ total_out_of_pocket = out_of_pocket_max

\* C5: the reference run (fees 500, 300, 200, 100; remaining deductible 200;
\* rates 0.1 and 0.1; maximum 500) displays Provider 200 / 60 / 240,
\* Facility 0 / 60 / 240, Imaging 0 / 40 / 160, Anesthesia 0 / 20 / 80 and
\* the totals 200 / 180 / 500.
C5_ReferenceRun ==
    (ReferenceRun /\ Estimated) =>
        /\ breakdown_df.Cost =
             <<Dollars(500), Dollars(300), Dollars(200), Dollars(100),
               Dollars(1100)>>
        /\ breakdown_df.AppliedToDeductible =
             <<Dollars(200), 0, 0, 0, Dollars(200)>>
        /\ breakdown_df.CoveredByInsurance =
             <<Dollars(60), Dollars(60), Dollars(40), Dollars(20),
               Dollars(180)>>
        /\ breakdown_df.OutOfPocket =
             <<Dollars(240), Dollars(240), Dollars(160), Dollars(80),
               Dollars(500)>>
        /\ SumSeq(out_of_pocket) = Dollars(720)

C5_Witness == ReferenceRun /\ Estimated /\ breakdown_df # <<>>

\* C6: the pool is threaded in the order provider, facility, imaging,
\* anesthesia: the amount applied to category i is
\* min(fee_i, max(0, D - sum of the earlier fees)); a category gets a
\* non-zero amount only if every earlier category has zero residual, and
\* after a category with a non-zero residual every later one gets 0.
C6_DeductibleThreading ==
    \A i \in 1..Len(deductible) :
        /\ deductible[i] =
             Min(fee[i], Max(0, deductible_remaining - SumTo(fee, i - 1)))
        /\ deductible[i] > 0 => \A j \in 1..(i - 1) : remaining[j] = 0
        /\ remaining[i] > 0 =>
              \A j \in (i + 1)..Len(deductible) : deductible[j] = 0

\* The pool covered the provider fee and part of the facility fee, and
\* nothing was left for imaging.
C6_Witness ==
    /\ Len(deductible) = NumCategories
    /\ deductible[1] > 0 /\ remaining[1] = 0
    /\ deductible[2] > 0 /\ remaining[2] > 0
    /\ fee[3] > 0 /\ deductible[3] = 0

\* C7: the cap changes the total out-of-pocket only: the per-category
\* out-of-pocket values and the totals applied and covered are the plain
\* sums whether or not the cap binds.  So total applied + total covered +
\* total out-of-pocket is the sum of the four fees when the uncapped sum is
\* at most outOfPocketMax, and less than it by (uncapped sum - maximum) when
\* the cap binds.
C7_CapTouchesTotalOnly ==
    /\ [][ pc = "cap" =>
             /\ UNCHANGED <<perCategory, total_applied_to_deductible,
                            total_covered_by_insurance>>
             /\ total_out_of_pocket' # total_out_of_pocket =>
                   total_out_of_pocket > out_of_pocket_max ]_vars
    /\ [](Capped =>
            LET uncapped == SumSeq(out_of_pocket)
                shown == total_applied_to_deductible
                           + total_covered_by_insurance + total_out_of_pocket
            IN  /\ \A i \in 1..NumCategories :
                      out_of_pocket[i] = remaining[i] - covered[i]
                /\ total_applied_to_deductible = SumSeq(deductible)
                /\ total_covered_by_insurance = SumSeq(covered)
                /\ uncapped <= out_of_pocket_max => shown = SumSeq(fee)
                /\ uncapped > out_of_pocket_max =>
                      /\ shown < SumSeq(fee)
                      /\ SumSeq(fee) - shown = uncapped - out_of_pocket_max)

\* The cap bound on a run with a positive covered total.
C7_Witness ==
    /\ Estimated
    /\ SumSeq(out_of_pocket) > out_of_pocket_max
    /\ total_out_of_pocket = out_of_pocket_max
    /\ total_covered_by_insurance > 0
    /\ total_applied_to_deductible > 0

\* C8: the sum of the rates is neither clamped nor rejected: with
\* coPay + coInsurance > 1 every positive residual gets covered > residual
\* and a negative patient amount, which is the displayed per-category
\* figure and enters the total sum; the min with the maximum does not
\* raise it.
C8_RateSumUnchecked ==
    Rate > PercentBase =>
        /\ \A i \in 1..Len(covered) :
              remaining[i] > 0 =>
                  /\ covered[i] > remaining[i]
                  /\ out_of_pocket[i] < 0
                  /\ out_of_pocket[i] * PercentBase
                       = remaining[i] * (PercentBase - Rate)
        /\ pc = "cap" => total_out_of_pocket = SumSeq(out_of_pocket)
        /\ Capped =>
              /\ total_out_of_pocket <= SumSeq(out_of_pocket)
              /\ SumSeq(out_of_pocket) <= 0 =>
                    total_out_of_pocket = SumSeq(out_of_pocket)
        /\ Estimated =>
              /\ \A i \in 1..NumCategories :
                    breakdown_df.OutOfPocket[i] = out_of_pocket[i]
              /\ breakdown_df.OutOfPocket[NumCategories + 1]
                    = total_out_of_pocket

\* A run with a rate sum above 1 ended with a negative total on display.
C8_Witness ==
    /\ Estimated
    /\ Rate > PercentBase
    /\ \E i \in 1..NumCategories :
          remaining[i] > 0 /\ breakdown_df.OutOfPocket[i] < 0
    /\ breakdown_df.OutOfPocket[NumCategories + 1] < 0

\* C9: for every category the patient's out-of-pocket amount is
\* residual * (coPay + coInsurance) and the insurer covers the rest of the
\* residual.
C9_PatientOwesRateShare ==
    \A i \in 1..Len(covered) :
        /\ out_of_pocket[i] * PercentBase = remaining[i] * Rate
        /\ covered[i] = remaining[i] - out_of_pocket[i]

\* C10: the threaded pool is non-negative and non-increasing after each of
\* the four calls, and the total applied to the deductible is
\* min(D, sum of the four fees) = D - final pool; it exceeds neither D nor
\* the sum of the fees.
C10_DeductiblePool ==
    /\ [][ pc = "deductible" =>
             /\ remaining_deductible' >= 0
             /\ remaining_deductible' <= remaining_deductible ]_vars
    /\ [](pc \notin {"button", "no_result"} =>
            /\ remaining_deductible >= 0
            /\ remaining_deductible <= deductible_remaining)
    /\ [](pc \in {"cap", "display", "done"} =>
            /\ total_applied_to_deductible
                 = Min(deductible_remaining, SumSeq(fee))
            /\ total_applied_to_deductible
                 = deductible_remaining - remaining_deductible
            /\ total_applied_to_deductible <= deductible_remaining
            /\ total_applied_to_deductible <= SumSeq(fee))

\* The pool was used up part-way: some fee was left over and the total
\* applied is the whole starting deductible.
C10_Witness ==
    /\ Estimated
    /\ deductible_remaining > 0
    /\ SumSeq(fee) > deductible_remaining
    /\ remaining_deductible = 0
    /\ total_applied_to_deductible = deductible_remaining
    /\ deductible[1] > 0 /\ deductible[2] > 0
====
